---- MODULE Spec2Model ----
(***************************************************************************)
(* The request gateway of src/server.js: the identity middleware            *)
(* verifyFirebaseToken and the route POST /api/ask with its two response    *)
(* modes (buffered JSON, streamed event frames).  One action per code       *)
(* segment between two awaits of the handler; the external providers        *)
(* (transcription, generation, synthesis, document store) answer            *)
(* nondeterministically.                                                     *)
(*                                                                           *)
(* Text values (body fields, tokens, replies) are sequences of one-character *)
(* strings so that trim() and += are computed, not assumed.  Header values   *)
(* and error messages are sequences of words so that the case-insensitive    *)
(* substring tests of the code are computed.                                 *)
(***************************************************************************)
EXTENDS Naturals, Sequences, FiniteSets

\* ------------------------------------------------------------------ bounds

\* Most chunks one generation stream yields (single-request specification).
MaxChunks == 2
\* Most chunks one generation stream yields when two requests run together.
PairChunks == 1
\* Most prior turns a caller supplies as history.
MaxHistory == 20

\* ------------------------------------------------- program constants

\* req.file.size >= 5000
MinAudioBytes == 5000

\* const MAX_TURNS = 6
MAX_TURNS == 6

\* ------------------------------------------------------------ state

VARIABLES
    adminApp,           \* Firebase Admin initialised (identity + store backend)
    CLEAN_TRANSCRIPT,   \* the CLEAN_TRANSCRIPT toggle
    providers,          \* what the external providers may answer
    req,                \* the incoming requests (headers, query, body, file)
    pc,                 \* each request's position in middleware / handler
    firebaseUser,       \* req.firebaseUser
    userText,           \* let userText
    fullAssistantText,  \* let fullAssistantText / const assistantText
    base64Audio,        \* let base64Audio
    res,                \* the response object of each request
    err,                \* the exception travelling to the outer catch
    calls,              \* provider calls issued, per request and provider
    store,              \* the document store: the writes it accepted, in order
    emitted,            \* tokens the generation stream has yielded so far
    messages,           \* const messages, as handed to the generation provider
    tasks,              \* the deferred tasks (process.nextTick) of each request
    outcome             \* what input resolution, cleanup, synthesis and persistence did

vars == <<adminApp, CLEAN_TRANSCRIPT, providers, req, pc, firebaseUser, userText,
          fullAssistantText, base64Audio, res, err, calls, store, emitted, messages,
          tasks, outcome>>

config == <<adminApp, CLEAN_TRANSCRIPT, providers, req>>

Requests == {"r1", "r2"}

\* ------------------------------------------------------------ text helpers

\* String.prototype.trim on a sequence of characters.
RECURSIVE TrimLeft(_)
TrimLeft(s) == IF s # <<>> /\ Head(s) = " " THEN TrimLeft(Tail(s)) ELSE s

RECURSIVE TrimRight(_)
TrimRight(s) ==
    IF s # <<>> /\ s[Len(s)] = " " THEN TrimRight(SubSeq(s, 1, Len(s) - 1)) ELSE s

Trim(s) == TrimRight(TrimLeft(s))

\* toLowerCase / the i flag of a regular expression, on the words of the model.
Lower(w) ==
    CASE w = "Bearer" -> "bearer"
      [] w = "Text/Event-Stream" -> "text/event-stream"
      [] w = "Invalid" -> "invalid"
      [] w = "Too Short" -> "too short"
      [] OTHER -> w

\* msg.toLowerCase().includes(w) / a case-insensitive regex test.
Includes(words, w) == \E i \in 1..Len(words) : Lower(words[i]) = w

\* ------------------------------------------------------------ input domains

\* body.uid as sent: absent, or a uid, possibly padded.
RawUids == {<<>>, <<"u">>, <<"v", " ">>}

RawConversationIds == {<<>>, <<" ">>, <<"c">>}

RawLanguages == {<<>>, <<"E">>}

\* A question a caller types.
Question == <<"W", "h", "a", "t", " ", "i", "s", " ", "2", "+", "2", "?">>

RawTexts == {<<>>, <<" ">>, <<" ", "q">>}

\* req.file.size; 0 stands for no file at all.
FileSizes == {0, MinAudioBytes - 1, MinAudioBytes}

\* Authorization header: none, a bearer token that verifies, one that does not.
AuthHeaders == {<<>>, <<"Bearer", "good">>, <<"bearer", "bad">>}

StreamQueries == {<<>>, <<"1", " ">>}

\* The i-th prior turn of a caller: user and assistant alternate, every content
\* is different.
Turn(i) ==
    [role |-> IF i % 2 = 1 THEN "user" ELSE "assistant", content |-> [j \in 1..i |-> "t"]]

Turns(k) == [i \in 1..k |-> Turn(i)]

\* body.history: absent, or what it holds and in which form it came.
NoHistory == [form |-> "absent", turns |-> <<>>]

\* An array (JSON body) or its JSON text (multipart field) of up to MaxHistory
\* turns, a text that does not parse, a text that parses to something else.
Histories ==
    {NoHistory, [form |-> "badjson", turns |-> Turns(2)],
     [form |-> "notarray", turns |-> Turns(2)]}
    \cup [form : {"array", "json"}, turns : {Turns(k) : k \in 0..MaxHistory}]

AcceptHeaders == {<<>>, <<"Text/Event-Stream">>}

RequestInputs ==
    [ authorization  : AuthHeaders,
      stream         : StreamQueries,
      accept         : AcceptHeaders,
      conversationId : RawConversationIds,
      answerLanguage : RawLanguages,
      speakLanguage  : RawLanguages,
      uid            : RawUids,
      text           : RawTexts,
      fileSize       : FileSizes,
      history        : {NoHistory} ]

\* ------------------------------------------------------------ provider replies

\* stt.text
SttReplies == {<<>>, <<" ">>, <<"h", " ">>}

\* cleaned.output_text
CleanReplies == {<<>>, <<" ">>, <<"k">>}

\* chunk.choices[0].delta.content of one chunk ('' when the chunk has none)
Tokens == {<<>>, <<"x">>, <<"y">>}

\* resp.output_text
\* A reply of the generation provider to it.
Answer == <<"F", "o", "u", "r", "!">>

OutputTexts == {<<>>, <<"x", " ">>}

\* the audio returned by speech.create, base64-encoded
Audios == {<<>>, <<"A">>}

\* Exceptions a provider call throws: err.error.message and err.message.
ProviderErrors ==
    { [api |-> <<>>, message |-> <<"boom">>],
      [api |-> <<>>, message |-> <<>>],
      [api |-> <<"Audio", "Too Short">>, message |-> <<"400">>],
      [api |-> <<>>, message |-> <<"Invalid", "language">>] }

NoError == [api |-> <<>>, message |-> <<"none">>]

\* The one exception the synthesis provider throws in the model.
TtsErrors == {[api |-> <<>>, message |-> <<"tts down">>]}

\* Every answer of every provider.
AllProviders ==
    [chunks |-> MaxChunks, tokens |-> Tokens, outputs |-> OutputTexts,
     stt |-> SttReplies, clean |-> CleanReplies, audios |-> Audios,
     errors |-> ProviderErrors]

\* One answer and one exception per provider and two tokens to tell two streams
\* apart, for two requests in flight.
PairProviders ==
    [chunks |-> PairChunks, tokens |-> {<<"x">>, <<"y">>}, outputs |-> {<<"x", " ">>},
     stt |-> {<<"h", " ">>}, clean |-> {<<"k">>}, audios |-> {<<"A">>},
     errors |-> {[api |-> <<>>, message |-> <<"boom">>]}]

\* One exception per provider, every reply of the buffered generation and the
\* reply to the question, for one request that passes the gate.
HistoryProviders ==
    [chunks |-> PairChunks, tokens |-> {<<"x">>}, outputs |-> OutputTexts \cup {Answer},
     stt |-> {<<"h", " ">>}, clean |-> {<<"k">>}, audios |-> Audios,
     errors |-> {[api |-> <<>>, message |-> <<"boom">>]}]

\* ------------------------------------------------------------ response object

NewResponse ==
    [statusCode |-> 200, headersSent |-> FALSE, sse |-> FALSE,
     frames |-> <<>>, json |-> <<>>, ended |-> FALSE]

\* const send = (obj) => res.write(`data: ${JSON.stringify(obj)}\n\n`)
send(rs, obj) == [rs EXCEPT !.frames = Append(@, obj), !.headersSent = TRUE]

\* const endWith = (obj) => { try { send(obj); } finally { res.end(); } }
endWith(rs, obj) == [send(rs, obj) EXCEPT !.ended = TRUE]

\* sseError without res.statusCode = code: the frame goes out with status 200.
sseErrorDefaultStatus(rs, code, error, message) ==
    [rs EXCEPT !.sse = TRUE, !.headersSent = TRUE, !.ended = TRUE,
               !.frames = Append(@, [type |-> "error", error |-> error,
                                     message |-> message])]

\* function sseError(res, code, error, message)
sseError(rs, code, error, message) ==
    [rs EXCEPT !.statusCode = code, !.sse = TRUE, !.headersSent = TRUE, !.ended = TRUE,
               !.frames = Append(@, [type |-> "error", error |-> error,
                                     message |-> message])]

\* res.status(code).json(body)
json(rs, code, body) ==
    [rs EXCEPT !.statusCode = code, !.headersSent = TRUE, !.ended = TRUE,
               !.json = Append(@, body)]

\* return wantsStream ? sseError(res, code, ...) : res.status(code).json({...})
reject(rs, stream, code, error, message) ==
    IF stream THEN sseError(rs, code, error, message)
    ELSE json(rs, code, [error |-> error, message |-> message])

\* ------------------------------------------------------------ request fields

wantsStream(r) ==
    Trim(req[r].stream) = <<"1">> \/ Includes(req[r].accept, "text/event-stream")

answerLanguage(r) == Trim(req[r].answerLanguage)
speakLanguage(r)  == Trim(req[r].speakLanguage)
conversationId(r) == Trim(req[r].conversationId)
uid(r)            == Trim(req[r].uid)

\* authHdr.match(/^Bearer\s+(.*)$/i)
tokenMatch(r) ==
    Len(req[r].authorization) = 2 /\ Lower(req[r].authorization[1]) = "bearer"

NoUser == [verified |-> FALSE, uid |-> <<>>]

\* admin.auth().verifyIdToken: the token "good" is u's; any other is refused.
verifyIdToken(token) ==
    IF token = "good" THEN [verified |-> TRUE, uid |-> <<"u">>] ELSE NoUser

\* No deferred task is scheduled.
NoTasks == [tts |-> "none", store |-> "none"]

NoCalls ==
    [stt |-> 0, clean |-> 0, gen |-> 0, tts |-> 0,
     touch |-> 0, user |-> 0, assistant |-> 0, order |-> <<>>]

\* ------------------------------------------------------------ initial states

InitLocals ==
    /\ firebaseUser = [r \in Requests |-> NoUser]
    /\ userText = [r \in Requests |-> <<>>]
    /\ fullAssistantText = [r \in Requests |-> <<>>]
    /\ base64Audio = [r \in Requests |-> <<>>]
    /\ res = [r \in Requests |-> NewResponse]
    /\ err = [r \in Requests |-> NoError]
    /\ calls = [r \in Requests |-> NoCalls]
    /\ store = <<>>
    /\ emitted = [r \in Requests |-> <<>>]
    /\ messages = [r \in Requests |-> <<>>]
    /\ tasks = [r \in Requests |-> NoTasks]
    /\ outcome = [r \in Requests |->
                   [tts |-> "none", store |-> "none", clean |-> "none",
                    resolved |-> <<>>]]

\* One request, any input, any configuration.
Init ==
    /\ adminApp \in BOOLEAN
    /\ CLEAN_TRANSCRIPT \in BOOLEAN
    /\ providers = AllProviders
    /\ \E i \in RequestInputs : req = [r \in Requests |-> i]
    /\ pc = [r \in Requests |-> IF r = "r1" THEN "verify" ELSE "absent"]
    /\ InitLocals

\* Requests that pass the gate, as text or as audio, in either mode.
PairInputs ==
    [ authorization  : {<<>>},
      stream         : StreamQueries,
      accept         : {<<>>},
      conversationId : {<<"c">>},
      answerLanguage : {<<"E">>},
      speakLanguage  : {<<"E">>},
      uid            : {<<"u">>},
      text           : {<<" ", "q">>},
      fileSize       : {0, MinAudioBytes},
      history        : {NoHistory} ]

\* Two requests in flight at once, with a store backend.
InitPair ==
    /\ adminApp = TRUE
    /\ CLEAN_TRANSCRIPT = FALSE
    /\ providers = PairProviders
    /\ req \in [Requests -> PairInputs]
    /\ pc = [r \in Requests |-> "verify"]
    /\ InitLocals

\* Requests that pass the gate and bring a history of prior turns.
HistoryInputs ==
    [ authorization  : {<<>>},
      stream         : StreamQueries,
      accept         : {<<>>},
      conversationId : {<<"c">>},
      answerLanguage : {<<"E">>},
      speakLanguage  : {<<"E">>},
      uid            : {<<"u">>},
      text           : {<<" ", "q">>, Question},
      fileSize       : {0, MinAudioBytes},
      history        : Histories ]

\* One request with a history, with a store backend.
InitHistory ==
    /\ adminApp = TRUE
    /\ CLEAN_TRANSCRIPT \in BOOLEAN
    /\ providers = HistoryProviders
    /\ \E i \in HistoryInputs : req = [r \in Requests |-> i]
    /\ pc = [r \in Requests |-> IF r = "r1" THEN "verify" ELSE "absent"]
    /\ InitLocals

\* ------------------------------------------------------------ middleware

\* A credential that does not verify is answered 401 and the handler is not run.
verifyFirebaseTokenRejecting(r) ==
    /\ pc[r] = "verify"
    /\ LET decoded == IF tokenMatch(r) /\ adminApp
                      THEN verifyIdToken(req[r].authorization[2])
                      ELSE NoUser
           refused == tokenMatch(r) /\ adminApp /\ ~decoded.verified
       IN  /\ firebaseUser' = [firebaseUser EXCEPT ![r] = decoded]
           /\ pc' = [pc EXCEPT ![r] = IF refused THEN "done" ELSE "validate"]
           /\ res' = [res EXCEPT ![r] =
                        IF refused
                        THEN json(@, 401, [error |-> "unauthenticated",
                                           message |-> <<"Invalid token.">>])
                        ELSE @]
    /\ UNCHANGED <<config, tasks, messages, userText, fullAssistantText, base64Audio, err,
                   calls, store, emitted, outcome>>

\* async function verifyFirebaseToken(req, res, next)
verifyFirebaseToken(r) ==
    /\ pc[r] = "verify"
    /\ firebaseUser' =
         [firebaseUser EXCEPT ![r] =
            IF tokenMatch(r) /\ adminApp
            THEN verifyIdToken(req[r].authorization[2])
            ELSE NoUser]
    /\ pc' = [pc EXCEPT ![r] = "validate"]
    /\ UNCHANGED <<config, tasks, messages, userText, fullAssistantText, base64Audio, res, err,
                   calls, store, emitted, outcome>>

\* ------------------------------------------------------------ validation gate

NoRejection == [code |-> 0, error |-> "", message |-> <<>>]

\* The comparison turned round: === in place of !==.
uidMismatchInverted(r) ==
    /\ uid(r) # <<>>
    /\ firebaseUser[r].verified
    /\ firebaseUser[r].uid # <<>>
    /\ uid(r) = firebaseUser[r].uid

\* uid && req.firebaseUser && req.firebaseUser.uid && uid !== req.firebaseUser.uid
uidMismatch(r) ==
    /\ uid(r) # <<>>
    /\ firebaseUser[r].verified
    /\ firebaseUser[r].uid # <<>>
    /\ uid(r) # firebaseUser[r].uid

\* Any payload qualifies, whatever its size.
audioQualifiesAnySize(r) == req[r].fileSize > 0

\* req.file && req.file.buffer && req.file.size >= 5000
audioQualifies(r) == req[r].fileSize >= MinAudioBytes

\* body.text && typeof body.text === 'string' && body.text.trim()
textQualifies(r) == req[r].text # <<>> /\ Trim(req[r].text) # <<>>

\* The language check moved in front of the conversation check.
firstRejectionLanguageFirst(r) ==
    IF answerLanguage(r) = <<>> \/ speakLanguage(r) = <<>>
    THEN [code |-> 400, error |-> "missing_language",
          message |-> <<"Please select both Speaking and Answer languages.">>]
    ELSE IF conversationId(r) = <<>>
    THEN [code |-> 400, error |-> "missing_conversation",
          message |-> <<"No conversationId.">>]
    ELSE IF uidMismatch(r)
    THEN [code |-> 401, error |-> "unauthenticated",
          message |-> <<"UID does not match.">>]
    ELSE IF ~audioQualifies(r) /\ ~textQualifies(r)
    THEN [code |-> 400, error |-> "no_input",
          message |-> <<"No valid audio or text provided.">>]
    ELSE NoRejection

\* Audio together with text is no input either.
firstRejectionExactlyOne(r) ==
    IF conversationId(r) = <<>>
    THEN [code |-> 400, error |-> "missing_conversation",
          message |-> <<"No conversationId.">>]
    ELSE IF answerLanguage(r) = <<>> \/ speakLanguage(r) = <<>>
    THEN [code |-> 400, error |-> "missing_language",
          message |-> <<"Please select both Speaking and Answer languages.">>]
    ELSE IF uidMismatch(r)
    THEN [code |-> 401, error |-> "unauthenticated",
          message |-> <<"UID does not match.">>]
    ELSE IF audioQualifies(r) = textQualifies(r)
    THEN [code |-> 400, error |-> "no_input",
          message |-> <<"No valid audio or text provided.">>]
    ELSE NoRejection

\* The checks of the handler up to its first await, in the order of the code:
\* the first one that fails decides the rejection.
firstRejection(r) ==
    IF conversationId(r) = <<>>
    THEN [code |-> 400, error |-> "missing_conversation",
          message |-> <<"No conversationId.">>]
    ELSE IF answerLanguage(r) = <<>> \/ speakLanguage(r) = <<>>
    THEN [code |-> 400, error |-> "missing_language",
          message |-> <<"Please select both Speaking and Answer languages.">>]
    ELSE IF uidMismatch(r)
    THEN [code |-> 401, error |-> "unauthenticated",
          message |-> <<"UID does not match.">>]
    ELSE IF ~audioQualifies(r) /\ ~textQualifies(r)
    THEN [code |-> 400, error |-> "no_input",
          message |-> <<"No valid audio or text provided.">>]
    ELSE NoRejection

\* Lines 127-179 without the transcription call: parse, validate, pick the input.
validate(r) ==
    /\ pc[r] = "validate"
    /\ LET rej == firstRejection(r) IN
         IF rej.code # 0
         THEN /\ res' = [res EXCEPT ![r] =
                           reject(@, wantsStream(r), rej.code, rej.error, rej.message)]
              /\ pc' = [pc EXCEPT ![r] = "done"]
              /\ UNCHANGED <<userText, outcome>>
         ELSE IF audioQualifies(r)
         THEN /\ pc' = [pc EXCEPT ![r] = "stt"]
              /\ UNCHANGED <<res, userText, outcome>>
         ELSE /\ userText' = [userText EXCEPT ![r] = Trim(req[r].text)]
              /\ outcome' = [outcome EXCEPT ![r].resolved = Trim(req[r].text)]
              /\ pc' = [pc EXCEPT ![r] = "cleanup"]
              /\ UNCHANGED res
    /\ UNCHANGED <<config, tasks, messages, firebaseUser, fullAssistantText, base64Audio, err,
                   calls, store, emitted>>

\* ------------------------------------------------------------ input text

called(r, provider) ==
    [calls EXCEPT ![r][provider] = @ + 1, ![r].order = Append(@, provider)]

\* An empty transcript replaced by the text field of the request.
transcribeFallingBack(r) ==
    /\ pc[r] = "stt"
    /\ calls' = called(r, "stt")
    /\ \/ \E t \in providers.stt :
            /\ userText' = [userText EXCEPT ![r] =
                              IF Trim(t) = <<>> THEN Trim(req[r].text) ELSE Trim(t)]
            /\ outcome' = [outcome EXCEPT ![r].resolved = Trim(t)]
            /\ pc' = [pc EXCEPT ![r] = "cleanup"]
            /\ UNCHANGED err
       \/ \E e \in providers.errors :
            /\ err' = [err EXCEPT ![r] = e]
            /\ pc' = [pc EXCEPT ![r] = "catch"]
            /\ UNCHANGED <<userText, outcome>>
    /\ UNCHANGED <<config, tasks, messages, firebaseUser, fullAssistantText, base64Audio, res,
                   store, emitted>>

\* const stt = await openai.audio.transcriptions.create(...)
transcribe(r) ==
    /\ pc[r] = "stt"
    /\ calls' = called(r, "stt")
    /\ \/ \E t \in providers.stt :
            /\ userText' = [userText EXCEPT ![r] = Trim(t)]
            /\ outcome' = [outcome EXCEPT ![r].resolved = Trim(t)]
            /\ pc' = [pc EXCEPT ![r] = "cleanup"]
            /\ UNCHANGED err
       \/ \E e \in providers.errors :
            /\ err' = [err EXCEPT ![r] = e]
            /\ pc' = [pc EXCEPT ![r] = "catch"]
            /\ UNCHANGED <<userText, outcome>>
    /\ UNCHANGED <<config, tasks, messages, firebaseUser, fullAssistantText, base64Audio, res,
                   store, emitted>>

\* userText = (cleaned.output_text || userText).trim()
cleaned(reply, text) == Trim(IF reply # <<>> THEN reply ELSE text)

\* if (CLEAN_TRANSCRIPT && userText) { ... }
cleanup(r) ==
    /\ pc[r] = "cleanup"
    /\ IF CLEAN_TRANSCRIPT /\ userText[r] # <<>>
       THEN /\ calls' = called(r, "clean")
            /\ \/ \E reply \in providers.clean :
                    /\ userText' = [userText EXCEPT ![r] = cleaned(reply, @)]
                    /\ pc' = [pc EXCEPT ![r] = "generate"]
                    /\ outcome' = [outcome EXCEPT
                                     ![r].clean = IF reply = <<>> THEN "empty" ELSE "text"]
                    /\ UNCHANGED err
               \/ \E e \in providers.errors :
                    /\ err' = [err EXCEPT ![r] = e]
                    /\ pc' = [pc EXCEPT ![r] = "catch"]
                    /\ outcome' = [outcome EXCEPT ![r].clean = "failed"]
                    /\ UNCHANGED userText
       ELSE /\ pc' = [pc EXCEPT ![r] = "generate"]
            /\ UNCHANGED <<calls, userText, err, outcome>>
    /\ UNCHANGED <<config, tasks, messages, firebaseUser, fullAssistantText, base64Audio, res,
                   store, emitted>>

\* ------------------------------------------------------------ messages

\* clientHistory: body.history parsed when it is text, [] unless it is an array.
clientHistory(r) ==
    IF req[r].history.form \in {"array", "json"} THEN req[r].history.turns ELSE <<>>

\* The oldest turns instead of the most recent ones.
safeHistoryOldest(h) ==
    IF Len(h) > MAX_TURNS * 2 THEN SubSeq(h, 1, MAX_TURNS * 2) ELSE h

\* const safeHistory = clientHistory.slice(-MAX_TURNS * 2)
safeHistory(h) ==
    IF Len(h) > MAX_TURNS * 2 THEN SubSeq(h, Len(h) - MAX_TURNS * 2 + 1, Len(h)) ELSE h

\* const systemPrompt = `You are a ${answerLanguage} kids e-learning helper ...`
systemPrompt(language) ==
    <<"You are a ">> \o language \o
    <<" kids e-learning helper for Indian kids. Use very simple words, short sentences, warm tone. Use chat history for continuity and clarify doubts with tiny examples. Avoid adult/harmful content. Always answer in ">>
    \o language \o <<".">>

\* const messages = [{ role: 'system', ... }, ...safeHistory, { role: 'user', ... }]
compose(r) ==
    << [role |-> "system", content |-> systemPrompt(answerLanguage(r))] >>
    \o safeHistory(clientHistory(r))
    \o << [role |-> "user", content |-> userText[r]] >>

\* ------------------------------------------------------------ generation

\* A token put in front of the text instead of behind it.
accumulatePrepend(text, token) == token \o text

\* fullAssistantText += token
accumulate(text, token) == text \o token

\* if (token) { fullAssistantText += token; send({ type: 'delta', delta: token }); }
onToken(rs, token) ==
    IF token # <<>> THEN send(rs, [type |-> "delta", delta |-> token]) ELSE rs

\* The error frame sent without res.end(): the channel stays open.
onStreamErrorNoEnd(rs, e) ==
    send(rs, [type |-> "error",
              message |-> IF e.message # <<>> THEN e.message
                          ELSE <<"processing_failed">>])

\* catch (err) { endWith({ type: 'error', message: err?.message || 'processing_failed' }); }
onStreamError(rs, e) ==
    endWith(rs, [type |-> "error",
                 message |-> IF e.message # <<>> THEN e.message
                             ELSE <<"processing_failed">>])

\* The persistence tail run after the streaming catch as well.
afterStreamErrorPersists == "touch"

\* Where the handler goes after the streaming catch: return; // SSE path ends here
afterStreamError == "done"

\* res.setHeader('Content-Type', 'text/event-stream; ...'); res.flushHeaders?.();
openChannel(rs) == [rs EXCEPT !.sse = TRUE, !.headersSent = TRUE]

\* if (wantsStream) { headers; const stream = await openai.chat.completions.create(...)
openStream(r) ==
    /\ pc[r] = "generate"
    /\ wantsStream(r)
    /\ calls' = called(r, "gen")
    /\ messages' = [messages EXCEPT ![r] = compose(r)]
    /\ \/ \E e \in providers.errors :
            /\ res' = [res EXCEPT ![r] = onStreamError(openChannel(@), e)]
            /\ err' = [err EXCEPT ![r] = e]
            /\ pc' = [pc EXCEPT ![r] = afterStreamError]
       \/ /\ res' = [res EXCEPT ![r] = openChannel(@)]
          /\ pc' = [pc EXCEPT ![r] = "streaming"]
          /\ UNCHANGED err
    /\ UNCHANGED <<config, tasks, firebaseUser, userText, fullAssistantText, base64Audio,
                   store, emitted, outcome>>

\* The accumulated text kept in one variable that every request in flight
\* appends to.
streamChunkShared(r) ==
    /\ pc[r] = "streaming"
    /\ Len(emitted[r]) < providers.chunks
    /\ \E token \in providers.tokens :
         /\ emitted' = [emitted EXCEPT ![r] = Append(@, token)]
         /\ fullAssistantText' =
              [q \in Requests |->
                 IF token # <<>> /\ (q = r \/ pc[q] = "streaming")
                 THEN accumulate(fullAssistantText[q], token)
                 ELSE fullAssistantText[q]]
         /\ res' = [res EXCEPT ![r] = onToken(@, token)]
    /\ UNCHANGED <<config, tasks, messages, pc, firebaseUser, userText, base64Audio, err, calls,
                   store, outcome>>

\* for await (const chunk of stream) { ... }: one chunk arrives
streamChunk(r) ==
    /\ pc[r] = "streaming"
    /\ Len(emitted[r]) < providers.chunks
    /\ \E token \in providers.tokens :
         /\ emitted' = [emitted EXCEPT ![r] = Append(@, token)]
         /\ fullAssistantText' =
              [fullAssistantText EXCEPT ![r] =
                 IF token # <<>> THEN accumulate(@, token) ELSE @]
         /\ res' = [res EXCEPT ![r] = onToken(@, token)]
    /\ UNCHANGED <<config, tasks, messages, pc, firebaseUser, userText, base64Audio, err, calls,
                   store, outcome>>

\* the stream throws while it is iterated
streamThrow(r) ==
    /\ pc[r] = "streaming"
    /\ \E e \in providers.errors :
         /\ res' = [res EXCEPT ![r] = onStreamError(@, e)]
         /\ err' = [err EXCEPT ![r] = e]
    /\ pc' = [pc EXCEPT ![r] = afterStreamError]
    /\ UNCHANGED <<config, tasks, messages, firebaseUser, userText, fullAssistantText, base64Audio,
                   calls, store, emitted, outcome>>

\* The channel closed as soon as the stream completes, the tail left to run
\* behind the closed channel.
streamEndClosing(r) ==
    /\ pc[r] = "streaming"
    /\ res' = [res EXCEPT ![r] = endWith(@, [type |-> "message_end"])]
    /\ pc' = [pc EXCEPT ![r] = "tts"]
    /\ UNCHANGED <<config, tasks, messages, firebaseUser, userText, fullAssistantText, base64Audio,
                   err, calls, store, emitted, outcome>>

\* the stream completes: send({ type: 'message_end' })
streamEnd(r) ==
    /\ pc[r] = "streaming"
    /\ res' = [res EXCEPT ![r] = send(@, [type |-> "message_end"])]
    /\ pc' = [pc EXCEPT ![r] = "tts"]
    /\ UNCHANGED <<config, tasks, messages, firebaseUser, userText, fullAssistantText, base64Audio,
                   err, calls, store, emitted, outcome>>

\* The reply as the provider sent it, untrimmed.
assistantTextRaw(reply) == reply

\* const assistantText = (resp.output_text || '').trim()
assistantText(reply) == Trim(reply)

\* const resp = await openai.responses.create({ model: 'gpt-5', input: messages })
generateBuffered(r) ==
    /\ pc[r] = "generate"
    /\ ~wantsStream(r)
    /\ calls' = called(r, "gen")
    /\ messages' = [messages EXCEPT ![r] = compose(r)]
    /\ \/ \E text \in providers.outputs :
            /\ fullAssistantText' = [fullAssistantText EXCEPT ![r] = assistantText(text)]
            /\ emitted' = [emitted EXCEPT ![r] = <<text>>]
            /\ pc' = [pc EXCEPT ![r] = "tts"]
            /\ UNCHANGED err
       \/ \E e \in providers.errors :
            /\ err' = [err EXCEPT ![r] = e]
            /\ pc' = [pc EXCEPT ![r] = "catch"]
            /\ UNCHANGED <<fullAssistantText, emitted>>
    /\ UNCHANGED <<config, tasks, firebaseUser, userText, base64Audio, res, store, outcome>>

\* ------------------------------------------------------------ synthesis

\* if (base64Audio) send({ type: 'tts', audioBase64: base64Audio })
onAudio(rs, stream, audio) ==
    IF stream /\ audio # <<>>
    THEN send(rs, [type |-> "tts", audioBase64 |-> audio])
    ELSE rs

\* The synthesis failure treated as a failure of the request.
onTtsErrorFatal(rs, stream, e) ==
    IF stream THEN send(rs, [type |-> "error", message |-> e.message])
    ELSE [rs EXCEPT !.statusCode = 500]

\* catch (ttsErr): a tts_error frame when streaming, a console warning otherwise
onTtsError(rs, stream, e) ==
    IF stream THEN send(rs, [type |-> "tts_error", message |-> e.message]) ELSE rs

\* if (adminApp && uid)
persists(r) == adminApp /\ uid(r) # <<>>

afterTts(r) == IF persists(r) THEN "touch" ELSE "respond"

\* try { const speech = await openai.audio.speech.create(...) ... } catch (ttsErr) {...}
synthesize(r) ==
    /\ pc[r] = "tts"
    /\ calls' = called(r, "tts")
    /\ \/ \E audio \in providers.audios :
            /\ base64Audio' = [base64Audio EXCEPT ![r] = audio]
            /\ res' = [res EXCEPT ![r] = onAudio(@, wantsStream(r), audio)]
            /\ outcome' = [outcome EXCEPT ![r].tts = "ok"]
       \/ \E e \in TtsErrors :
            /\ base64Audio' = [base64Audio EXCEPT ![r] = <<>>]
            /\ res' = [res EXCEPT ![r] = onTtsError(@, wantsStream(r), e)]
            /\ outcome' = [outcome EXCEPT ![r].tts = "failed"]
    /\ pc' = [pc EXCEPT ![r] = afterTts(r)]
    /\ UNCHANGED <<config, tasks, messages, firebaseUser, userText, fullAssistantText, err, store,
                   emitted>>

\* ------------------------------------------------------------ persistence

\* One accepted write: the document path (uid, conversation) and what was written.
write(r, op, content) ==
    [by |-> r, uid |-> uid(r), chat |-> conversationId(r), op |-> op,
     content |-> content]

\* The store failure reaching the caller of the buffered mode as a 500.
onStoreErrorSurfaces(rs, stream) ==
    IF stream THEN send(rs, [type |-> "warn", message |-> <<"history_write_failed">>])
    ELSE [rs EXCEPT !.statusCode = 500]

\* catch (e): a warn frame when streaming, a console error otherwise
onStoreError(rs, stream) ==
    IF stream THEN send(rs, [type |-> "warn", message |-> <<"history_write_failed">>])
    ELSE rs

\* A store call that is issued a second time when it fails the first time.
storeCallRetrying(r, at, op, content, next) ==
    /\ pc[r] = at
    /\ calls' = called(r, op)
    /\ \/ /\ store' = Append(store, write(r, op, content))
          /\ pc' = [pc EXCEPT ![r] = next]
          /\ outcome' = [outcome EXCEPT ![r].store =
                           IF next = "respond" THEN "ok" ELSE @]
          /\ UNCHANGED res
       \/ /\ calls[r][op] = 0
          /\ UNCHANGED <<res, pc, outcome, store>>
       \/ /\ calls[r][op] > 0
          /\ res' = [res EXCEPT ![r] = onStoreError(@, wantsStream(r))]
          /\ pc' = [pc EXCEPT ![r] = "respond"]
          /\ outcome' = [outcome EXCEPT ![r].store = "failed"]
          /\ UNCHANGED store
    /\ UNCHANGED <<config, tasks, messages, firebaseUser, userText, fullAssistantText, base64Audio,
                   err, emitted>>

\* A store call whose failure is swallowed on the spot: the tail goes on with
\* its next write.
storeCallContinues(r, at, op, content, next) ==
    /\ pc[r] = at
    /\ calls' = called(r, op)
    /\ \/ /\ store' = Append(store, write(r, op, content))
          /\ pc' = [pc EXCEPT ![r] = next]
          /\ outcome' = [outcome EXCEPT ![r].store =
                           IF next = "respond" /\ @ # "failed" THEN "ok" ELSE @]
          /\ UNCHANGED res
       \/ /\ res' = [res EXCEPT ![r] = onStoreError(@, wantsStream(r))]
          /\ pc' = [pc EXCEPT ![r] = next]
          /\ outcome' = [outcome EXCEPT ![r].store = "failed"]
          /\ UNCHANGED store
    /\ UNCHANGED <<config, tasks, messages, firebaseUser, userText, fullAssistantText, base64Audio,
                   err, emitted>>

\* One awaited store call of the tail: it is accepted, or it throws into the catch.
storeCall(r, at, op, content, next) ==
    /\ pc[r] = at
    /\ calls' = called(r, op)
    /\ \/ /\ store' = Append(store, write(r, op, content))
          /\ pc' = [pc EXCEPT ![r] = next]
          /\ outcome' = [outcome EXCEPT ![r].store =
                           IF next = "respond" THEN "ok" ELSE @]
          /\ UNCHANGED res
       \/ /\ res' = [res EXCEPT ![r] = onStoreError(@, wantsStream(r))]
          /\ pc' = [pc EXCEPT ![r] = "respond"]
          /\ outcome' = [outcome EXCEPT ![r].store = "failed"]
          /\ UNCHANGED store
    /\ UNCHANGED <<config, tasks, messages, firebaseUser, userText, fullAssistantText, base64Audio,
                   err, emitted>>

\* await chatRef.set({ updatedAt: ... }, { merge: true })
touchConversation(r) == storeCall(r, "touch", "touch", <<>>, "user")

\* await chatRef.collection('messages').add({ role: 'user', content: userText, ... })
addUserTurn(r) == storeCall(r, "user", "user", userText[r], "assistant")

\* await chatRef.collection('messages').add({ role: 'assistant', content: ..., ... })
addAssistantTurn(r) ==
    storeCall(r, "assistant", "assistant", fullAssistantText[r], "respond")

\* ------------------------------------------------------------ final response

\* endWith({ type: 'done', transcript: userText, text: fullAssistantText })
doneFrame(r) ==
    [type |-> "done", transcript |-> userText[r], text |-> fullAssistantText[r]]

\* res.json({ conversationId, transcript: userText, text: assistantText, audioBase64 })
jsonBody(r) ==
    [conversationId |-> conversationId(r), transcript |-> userText[r],
     text |-> fullAssistantText[r], audioBase64 |-> base64Audio[r]]

respond(r) ==
    /\ pc[r] = "respond"
    /\ res' = [res EXCEPT ![r] =
                 IF wantsStream(r) THEN endWith(@, doneFrame(r))
                 ELSE json(@, @.statusCode, jsonBody(r))]
    /\ pc' = [pc EXCEPT ![r] = "done"]
    /\ UNCHANGED <<config, tasks, messages, firebaseUser, userText, fullAssistantText, base64Audio,
                   err, calls, store, emitted, outcome>>

\* ------------------------------------------------------------ outer catch

\* const msg = (err?.error?.message || err?.message || '').toLowerCase()
errorText(e) == IF e.api # <<>> THEN e.api ELSE e.message

\* The kind, status and message the outer catch answers with.
classify(e) ==
    LET msg == errorText(e) IN
    IF Includes(msg, "shorter than") \/ Includes(msg, "too short")
    THEN [code |-> 400, error |-> "audio_too_short",
          message |-> <<"Audio too short. Please record at least 1 second.">>]
    ELSE IF Includes(msg, "invalid") /\ Includes(msg, "language")
    THEN [code |-> 400, error |-> "invalid_language",
          message |-> <<"Unsupported language code.">>]
    ELSE [code |-> 500, error |-> "processing_failed",
          message |-> <<"Something went wrong while processing input.">>]

\* } catch (err) { ... return res.status(...).json({ error, message }) }
outerCatch(r) ==
    /\ pc[r] = "catch"
    /\ LET c == classify(err[r]) IN
         res' = [res EXCEPT ![r] =
                   json(@, c.code, [error |-> c.error, message |-> c.message])]
    /\ pc' = [pc EXCEPT ![r] = "done"]
    /\ UNCHANGED <<config, tasks, messages, firebaseUser, userText, fullAssistantText, base64Audio,
                   err, calls, store, emitted, outcome>>

Next ==
    \E r \in Requests :
        \/ verifyFirebaseToken(r)
        \/ validate(r)
        \/ transcribe(r)
        \/ cleanup(r)
        \/ openStream(r)
        \/ streamChunk(r)
        \/ streamThrow(r)
        \/ streamEnd(r)
        \/ generateBuffered(r)
        \/ synthesize(r)
        \/ touchConversation(r)
        \/ addUserTurn(r)
        \/ addAssistantTurn(r)
        \/ respond(r)
        \/ outerCatch(r)

Spec == Init /\ [][Next]_vars

SpecPair == InitPair /\ [][Next]_vars

SpecHistory == InitHistory /\ [][Next]_vars

\* A step of the handler invocation r: it moves on in the code or takes one
\* more chunk from its stream.
Moves(r) == pc'[r] # pc[r] \/ emitted'[r] # emitted[r]

\* Every awaited call settles and the event loop resumes every handler that
\* can go on: no request in flight waits forever.
Fairness == \A r \in Requests : WF_vars(Next /\ Moves(r))

SpecPairLive == SpecPair /\ Fairness

\* ============================================================ streaming-only route
\*
\* The first program of src/unnamed/part_000: the same middleware, gate, input
\* resolution and cleanup, a route that always streams, and a tail that runs in
\* deferred tasks after the response was ended.

\* Requests to the streaming-only route; it reads neither the stream query
\* parameter nor the Accept header.
SseInputs ==
    [ authorization  : {<<>>, <<"Bearer", "good">>},
      stream         : {<<>>},
      accept         : {<<>>},
      conversationId : {<<>>, <<"c">>},
      answerLanguage : {<<"E">>},
      speakLanguage  : {<<"E">>},
      uid            : {<<>>, <<"u">>},
      text           : {<<>>, <<" ", "q">>},
      fileSize       : {0, MinAudioBytes},
      history        : {NoHistory} ]

\* Every chunk content, one answer and one exception for the other providers.
SseProviders ==
    [chunks |-> MaxChunks, tokens |-> Tokens, outputs |-> {<<"x", " ">>},
     stt |-> {<<"h", " ">>}, clean |-> {<<"k">>}, audios |-> {<<"A">>},
     errors |-> {[api |-> <<>>, message |-> <<"boom">>]}]

InitSse ==
    /\ adminApp \in BOOLEAN
    /\ CLEAN_TRANSCRIPT \in BOOLEAN
    /\ providers = SseProviders
    /\ \E i \in SseInputs : req = [r \in Requests |-> i]
    /\ pc = [r \in Requests |-> IF r = "r1" THEN "verify" ELSE "absent"]
    /\ InitLocals

\* The gate of the route: every rejection is res.status(code).json({...}).
validateSse(r) ==
    /\ pc[r] = "validate"
    /\ LET rej == firstRejection(r) IN
         IF rej.code # 0
         THEN /\ res' = [res EXCEPT ![r] =
                           json(@, rej.code, [error |-> rej.error, message |-> rej.message])]
              /\ pc' = [pc EXCEPT ![r] = "done"]
              /\ UNCHANGED <<userText, outcome>>
         ELSE IF audioQualifies(r)
         THEN /\ pc' = [pc EXCEPT ![r] = "stt"]
              /\ UNCHANGED <<res, userText, outcome>>
         ELSE /\ userText' = [userText EXCEPT ![r] = Trim(req[r].text)]
              /\ outcome' = [outcome EXCEPT ![r].resolved = Trim(req[r].text)]
              /\ pc' = [pc EXCEPT ![r] = "cleanup"]
              /\ UNCHANGED res
    /\ UNCHANGED <<config, tasks, messages, firebaseUser, fullAssistantText, base64Audio,
                   err, calls, store, emitted>>

\* res.flushHeaders?.(); const stream = await openai.chat.completions.create(...)
openSse(r) ==
    /\ pc[r] = "generate"
    /\ calls' = called(r, "gen")
    /\ messages' = [messages EXCEPT ![r] = compose(r)]
    /\ res' = [res EXCEPT ![r] = openChannel(@)]
    /\ \/ /\ pc' = [pc EXCEPT ![r] = "streaming"]
          /\ UNCHANGED err
       \/ \E e \in providers.errors :
            /\ err' = [err EXCEPT ![r] = e]
            /\ pc' = [pc EXCEPT ![r] = "catch"]
    /\ UNCHANGED <<config, tasks, firebaseUser, userText, fullAssistantText, base64Audio,
                   store, emitted, outcome>>

\* res.write(`data: ${token}\n\n`)
writeToken(rs, token) == send(rs, [data |-> token])

\* for await (const chunk of stream) { fullAssistantText += token; res.write(...) }
chunkSse(r) ==
    /\ pc[r] = "streaming"
    /\ Len(emitted[r]) < providers.chunks
    /\ \E token \in providers.tokens :
         /\ emitted' = [emitted EXCEPT ![r] = Append(@, token)]
         /\ fullAssistantText' = [fullAssistantText EXCEPT ![r] = accumulate(@, token)]
         /\ res' = [res EXCEPT ![r] = writeToken(@, token)]
    /\ UNCHANGED <<config, tasks, messages, pc, firebaseUser, userText, base64Audio, err,
                   calls, store, outcome>>

\* the stream throws while it is iterated
throwSse(r) ==
    /\ pc[r] = "streaming"
    /\ \E e \in providers.errors : err' = [err EXCEPT ![r] = e]
    /\ pc' = [pc EXCEPT ![r] = "catch"]
    /\ UNCHANGED <<config, tasks, messages, firebaseUser, userText, fullAssistantText,
                   base64Audio, res, calls, store, emitted, outcome>>

\* res.write("data: [END]\n\n")
EndMarker == [data |-> <<"[END]">>]

\* process.nextTick(async () => {...}); if (adminApp && uid) process.nextTick(...)
scheduled(r) == [tts |-> "queued", store |-> IF persists(r) THEN "queued" ELSE "none"]

\* res.write("data: [END]\n\n"); res.end(); then the two process.nextTick calls
endSse(r) ==
    /\ pc[r] = "streaming"
    /\ res' = [res EXCEPT ![r] = endWith(@, EndMarker)]
    /\ tasks' = [tasks EXCEPT ![r] = scheduled(r)]
    /\ pc' = [pc EXCEPT ![r] = "done"]
    /\ UNCHANGED <<config, messages, firebaseUser, userText, fullAssistantText, base64Audio,
                   err, calls, store, emitted, outcome>>

\* The catch reporting on the open channel too: an error line, then res.end().
onSseErrorClosing(rs) ==
    IF ~rs.headersSent
    THEN json(rs, 500, [error |-> "processing_failed",
                        message |-> <<"Something went wrong.">>])
    ELSE endWith(rs, [data |-> <<"[ERROR]">>])

\* if (!res.headersSent) res.status(500).json({ error: "processing_failed", ... })
onSseError(rs) ==
    IF ~rs.headersSent
    THEN json(rs, 500, [error |-> "processing_failed",
                        message |-> <<"Something went wrong.">>])
    ELSE rs

\* } catch (err) { console.error(...); if (!res.headersSent) {...} }
catchSse(r) ==
    /\ pc[r] = "catch"
    /\ res' = [res EXCEPT ![r] = onSseError(@)]
    /\ pc' = [pc EXCEPT ![r] = "done"]
    /\ UNCHANGED <<config, tasks, messages, firebaseUser, userText, fullAssistantText,
                   base64Audio, err, calls, store, emitted, outcome>>

\* The first deferred task starts: await openai.audio.speech.create(...)
ttsTaskStart(r) ==
    /\ tasks[r].tts = "queued"
    /\ tasks' = [tasks EXCEPT ![r].tts = "calling"]
    /\ calls' = called(r, "tts")
    /\ UNCHANGED <<config, messages, pc, firebaseUser, userText, fullAssistantText,
                   base64Audio, res, err, store, emitted, outcome>>

\* The synthesis call settles: void base64Audio, or console.warn("TTS failed:")
ttsTaskSettle(r) ==
    /\ tasks[r].tts = "calling"
    /\ tasks' = [tasks EXCEPT ![r].tts = "done"]
    /\ \/ \E audio \in providers.audios : outcome' = [outcome EXCEPT ![r].tts = "ok"]
       \/ \E e \in TtsErrors : outcome' = [outcome EXCEPT ![r].tts = "failed"]
    /\ UNCHANGED <<config, messages, pc, firebaseUser, userText, fullAssistantText,
                   base64Audio, res, err, calls, store, emitted>>

\* One awaited store call of the second deferred task, which starts after the
\* first task has reached its await: accepted, or console.error and the end.
logCall(r, at, op, content, next) ==
    /\ tasks[r].store = at
    /\ tasks[r].tts # "queued"
    /\ calls' = called(r, op)
    /\ \/ /\ store' = Append(store, write(r, op, content))
          /\ tasks' = [tasks EXCEPT ![r].store = next]
          /\ outcome' = [outcome EXCEPT ![r].store = IF next = "done" THEN "ok" ELSE @]
       \/ /\ tasks' = [tasks EXCEPT ![r].store = "done"]
          /\ outcome' = [outcome EXCEPT ![r].store = "failed"]
          /\ UNCHANGED store
    /\ UNCHANGED <<config, messages, pc, firebaseUser, userText, fullAssistantText,
                   base64Audio, res, err, emitted>>

\* await chatRef.set({ updatedAt: ... }, { merge: true })
logTouch(r) == logCall(r, "queued", "touch", <<>>, "user")

\* await chatRef.collection("messages").add({ role: "user", content: userText, ... })
logUserTurn(r) == logCall(r, "user", "user", userText[r], "assistant")

\* await chatRef.collection("messages").add({ role: "assistant", ... })
logAssistantTurn(r) ==
    logCall(r, "assistant", "assistant", fullAssistantText[r], "done")

NextSse ==
    \E r \in Requests :
        \/ verifyFirebaseToken(r)
        \/ validateSse(r)
        \/ transcribe(r)
        \/ cleanup(r)
        \/ openSse(r)
        \/ chunkSse(r)
        \/ throwSse(r)
        \/ endSse(r)
        \/ catchSse(r)
        \/ ttsTaskStart(r)
        \/ ttsTaskSettle(r)
        \/ logTouch(r)
        \/ logUserTurn(r)
        \/ logAssistantTurn(r)

SpecSse == InitSse /\ [][NextSse]_vars

\* ============================================================ properties

Finished(r) == pc[r] = "done"

Last(s) == s[Len(s)]

RECURSIVE Concat(_)
Concat(ts) == IF ts = <<>> THEN <<>> ELSE Head(ts) \o Concat(Tail(ts))

IsText(t) == t # <<>>

IsDelta(f) == f.type = "delta"

FrameTypes(fs) == [i \in 1..Len(fs) |-> fs[i].type]

\* The frames after the leading delta frames.
AfterDeltas(fs) == SubSeq(fs, Len(SelectSeq(fs, IsDelta)) + 1, Len(fs))

\* The delta frames lead, and carry the non-empty tokens in emission order.
DeltasCarry(fs, tokens) ==
    LET k == Len(SelectSeq(fs, IsDelta))
        sent == SelectSeq(tokens, IsText)
    IN  /\ \A i \in 1..k : fs[i].type = "delta"
        /\ k = Len(sent)
        /\ \A i \in 1..k : fs[i].delta = sent[i]

\* A streaming request whose generation stream completed and which has answered.
StreamCompleted(r) ==
    Finished(r) /\ wantsStream(r) /\ calls[r].gen = 1 /\ calls[r].tts = 1

\* The frame types that may follow the deltas according to the claim as written.
TailsAsClaimed ==
    { <<"message_end", "done">>,
      <<"message_end", "tts", "done">>,
      <<"message_end", "tts_error", "done">> }

\* The same, with the frame a failed store write adds.
TailsWithWarn ==
    TailsAsClaimed \cup
    { <<"message_end", "warn", "done">>,
      <<"message_end", "tts", "warn", "done">>,
      <<"message_end", "tts_error", "warn", "done">> }

StreamShape(r, tails) ==
    LET fs == res[r].frames IN
    /\ DeltasCarry(fs, emitted[r])
    /\ FrameTypes(AfterDeltas(fs)) \in tails
    /\ Last(fs).text = Concat(emitted[r])
    /\ res[r].ended
    /\ res[r].json = <<>>

\* C1 as written: a completed streamed generation is answered by the delta
\* frames of its tokens in order, one message_end frame, at most one synthesis
\* frame and one done frame whose text is the concatenation of the tokens, and
\* nothing else; the channel is then closed.
C1_AsWritten == \A r \in Requests : StreamCompleted(r) => StreamShape(r, TailsAsClaimed)

\* C1 amended: as C1, with at most one warn frame (a failed store write)
\* between the synthesis frame and the done frame.
C1_StreamFrames == \A r \in Requests : StreamCompleted(r) => StreamShape(r, TailsWithWarn)

\* A completed stream of two different tokens, synthesized and persisted.
C1_Witness ==
    \E r \in Requests :
        /\ StreamCompleted(r)
        /\ emitted[r] = << <<"x">>, <<"y">> >>
        /\ FrameTypes(res[r].frames) = <<"delta", "delta", "message_end", "tts", "done">>
        /\ outcome[r].store = "ok"

\* ------------------------------------------------------------ C2, C3

\* The request declares a uid other than the uid of its verified identity.
DeclaresOtherUid(r) ==
    /\ Trim(req[r].uid) # <<>>
    /\ firebaseUser[r].verified
    /\ Trim(req[r].uid) # firebaseUser[r].uid

\* The request was answered with this status and this error kind, in its mode.
RejectedWith(r, code, kind) ==
    /\ res[r].ended
    /\ res[r].statusCode = code
    /\ IF wantsStream(r)
       THEN /\ res[r].json = <<>>
            /\ Len(res[r].frames) = 1
            /\ res[r].frames[1].type = "error"
            /\ res[r].frames[1].error = kind
       ELSE /\ res[r].frames = <<>>
            /\ Len(res[r].json) = 1
            /\ "error" \in DOMAIN res[r].json[1]
            /\ res[r].json[1].error = kind

NoProviderCall(r) == calls[r] = NoCalls

NoWriteBy(r) == \A i \in 1..Len(store) : store[i].by # r

\* C2 as written: a request whose declared uid differs from the verified uid is
\* answered 401 unauthenticated, and no provider or store call is ever made for it.
C2_AsWritten ==
    \A r \in Requests :
        DeclaresOtherUid(r) =>
            /\ NoProviderCall(r)
            /\ Finished(r) => RejectedWith(r, 401, "unauthenticated")

\* C2 amended: such a request never reaches a provider or the store; it is
\* answered 401 unauthenticated when its conversation id and both languages are
\* present, and with the 400 of the earlier failing check otherwise.
C2_UidMismatchRejected ==
    \A r \in Requests :
        DeclaresOtherUid(r) =>
            /\ NoProviderCall(r)
            /\ NoWriteBy(r)
            /\ pc[r] \in {"validate", "done"}
            /\ Finished(r) =>
                 IF Trim(req[r].conversationId) = <<>>
                 THEN RejectedWith(r, 400, "missing_conversation")
                 ELSE IF Trim(req[r].answerLanguage) = <<>>
                         \/ Trim(req[r].speakLanguage) = <<>>
                 THEN RejectedWith(r, 400, "missing_language")
                 ELSE RejectedWith(r, 401, "unauthenticated")

\* A request with everything else in order, rejected for its uid alone.
C2_Witness ==
    \E r \in Requests :
        /\ DeclaresOtherUid(r)
        /\ Finished(r)
        /\ Trim(req[r].conversationId) # <<>>
        /\ req[r].fileSize >= MinAudioBytes
        /\ RejectedWith(r, 401, "unauthenticated")

\* C3 as written: a request without a verified identity writes nothing to the
\* document store, whatever uid its body declares.
C3_AnonymousNeverPersists ==
    \A r \in Requests :
        (pc[r] # "verify" /\ ~firebaseUser[r].verified) =>
            /\ NoWriteBy(r)
            /\ calls[r].touch = 0 /\ calls[r].user = 0 /\ calls[r].assistant = 0

\* ------------------------------------------------------------ C4

\* Two answered requests that were the same request with the same replies from
\* transcription, generation and synthesis, both of which reached the store.
SameRun(a, b) ==
    /\ Finished(a) /\ Finished(b)
    /\ req[a] = req[b]
    /\ userText[a] = userText[b]
    /\ emitted[a] = emitted[b]
    /\ outcome[a].tts = outcome[b].tts
    /\ base64Audio[a] = base64Audio[b]

StoredAndFailed(a, b) ==
    SameRun(a, b) /\ outcome[a].store = "ok" /\ outcome[b].store = "failed"

\* fs with frame f put in front of its last frame.
BeforeLast(fs, f) == SubSeq(fs, 1, Len(fs) - 1) \o <<f, Last(fs)>>

WarnFrame == [type |-> "warn", message |-> <<"history_write_failed">>]

\* C4 as written: a store failure at any of the three writes leaves the
\* response identical to the response without the failure, in both modes.
C4_AsWritten ==
    \A a, b \in Requests : StoredAndFailed(a, b) => res[b] = res[a]

\* C4 amended: in buffered mode the response is identical; in streaming mode
\* it is identical but for one warn frame in front of the done frame.
C4_StoreFailureHidden ==
    \A a, b \in Requests :
        StoredAndFailed(a, b) =>
            IF wantsStream(a)
            THEN res[b] = [res[a] EXCEPT !.frames = BeforeLast(@, WarnFrame)]
            ELSE res[b] = res[a]

\* Two buffered runs of one request, one of which lost its assistant turn.
C4_Witness ==
    \E a, b \in Requests :
        /\ StoredAndFailed(a, b)
        /\ ~wantsStream(a)
        /\ calls[b].assistant = 1
        /\ res[a].json # <<>>

\* ------------------------------------------------------------ C5, C6

MissingConversation(r) == Trim(req[r].conversationId) = <<>>

MissingLanguage(r) ==
    Trim(req[r].answerLanguage) = <<>> \/ Trim(req[r].speakLanguage) = <<>>

NoInput(r) == req[r].fileSize < MinAudioBytes /\ Trim(req[r].text) = <<>>

\* The error kind of the earliest check the request fails, in the order
\* conversation id, languages, uid, input; "passed" when it fails none.
GateKind(r) ==
    IF MissingConversation(r) THEN "missing_conversation"
    ELSE IF MissingLanguage(r) THEN "missing_language"
    ELSE IF DeclaresOtherUid(r) THEN "unauthenticated"
    ELSE IF NoInput(r) THEN "no_input"
    ELSE "passed"

GateKinds == {"missing_conversation", "missing_language", "unauthenticated", "no_input"}

StatusOf(kind) == IF kind = "unauthenticated" THEN 401 ELSE 400

MessageOf(kind) ==
    CASE kind = "missing_conversation" -> <<"No conversationId.">>
      [] kind = "missing_language" ->
            <<"Please select both Speaking and Answer languages.">>
      [] kind = "unauthenticated" -> <<"UID does not match.">>
      [] kind = "no_input" -> <<"No valid audio or text provided.">>

PastGate(r) == pc[r] \notin {"absent", "verify", "validate"}

\* C5: the gate checks conversation id, languages, uid and input in this order
\* and stops at the first failure: a request is answered with the kind of the
\* earliest check it fails, before any provider call; a request that fails none
\* is not rejected by the gate.
C5_GateOrder ==
    \A r \in Requests :
        PastGate(r) =>
            IF GateKind(r) # "passed"
            THEN /\ Finished(r)
                 /\ RejectedWith(r, StatusOf(GateKind(r)), GateKind(r))
                 /\ NoProviderCall(r)
            ELSE \A kind \in GateKinds :
                     ~(Finished(r) /\ RejectedWith(r, StatusOf(kind), kind))

\* A request failing all four checks, answered for the first one.
C5_Witness ==
    \E r \in Requests :
        /\ MissingConversation(r) /\ MissingLanguage(r)
        /\ DeclaresOtherUid(r) /\ NoInput(r)
        /\ Finished(r)
        /\ RejectedWith(r, 400, "missing_conversation")

\* The kinds of the items the request lacks.
MissingKinds(r) ==
    (IF MissingConversation(r) THEN {"missing_conversation"} ELSE {}) \cup
    (IF MissingLanguage(r) THEN {"missing_language"} ELSE {}) \cup
    (IF NoInput(r) THEN {"no_input"} ELSE {})

\* C6 as written: a request lacking the conversation id, a language or an
\* input is answered 400 with the kind of an item it lacks, in either mode.
C6_AsWritten ==
    \A r \in Requests :
        (Finished(r) /\ MissingKinds(r) # {}) =>
            \E kind \in MissingKinds(r) : RejectedWith(r, 400, kind)

\* The whole response of a rejection, in the mode of the request.
ErrorResponse(r, kind) ==
    IF wantsStream(r)
    THEN [statusCode |-> StatusOf(kind), headersSent |-> TRUE, sse |-> TRUE,
          frames |-> << [type |-> "error", error |-> kind,
                         message |-> MessageOf(kind)] >>,
          json |-> <<>>, ended |-> TRUE]
    ELSE [statusCode |-> StatusOf(kind), headersSent |-> TRUE, sse |-> FALSE,
          frames |-> <<>>,
          json |-> << [error |-> kind, message |-> MessageOf(kind)] >>,
          ended |-> TRUE]

\* C6 amended: such a request is answered with the kind of the earliest check
\* it fails (401 unauthenticated when only the input is lacking and the uid
\* mismatches), with the same kind, status and message in both modes: one JSON
\* body, or one error frame sent with that status on a channel then closed.
C6_MissingFieldErrors ==
    \A r \in Requests :
        (Finished(r) /\ MissingKinds(r) # {}) => res[r] = ErrorResponse(r, GateKind(r))

\* A streaming request lacking only its input.
C6_Witness ==
    \E r \in Requests :
        /\ Finished(r) /\ wantsStream(r)
        /\ MissingKinds(r) = {"no_input"}
        /\ res[r].statusCode = 400
        /\ res[r].frames[1].error = "no_input"

\* ------------------------------------------------------------ C7

\* The request was answered before synthesis was reached: an error response.
AnsweredError(r) == Finished(r) /\ calls[r].tts = 0

ErrorKinds ==
    GateKinds \cup {"audio_too_short", "invalid_language", "processing_failed"}

\* C7 as written: in streaming mode every error response is one terminal error
\* frame carrying an error kind and a message, provider failures before the
\* channel is opened included.
C7_StreamErrorsAreFrames ==
    \A r \in Requests :
        (AnsweredError(r) /\ wantsStream(r)) =>
            /\ res[r].json = <<>>
            /\ res[r].frames # <<>>
            /\ Last(res[r].frames).type = "error"
            /\ "error" \in DOMAIN Last(res[r].frames)
            /\ Last(res[r].frames).error \in ErrorKinds
            /\ res[r].ended

\* ------------------------------------------------------------ C8

\* A streaming request whose generation call was made on an open channel and
\* which was answered without reaching synthesis: the stream raised.
StreamRaised(r) ==
    Finished(r) /\ wantsStream(r) /\ calls[r].gen = 1 /\ calls[r].tts = 0

\* C8: an exception of the generation stream on an open channel yields exactly
\* one error frame, which is the last frame, after the deltas already sent and
\* nothing else; the channel is closed and the committed status 200 is kept.
C8_StreamErrorTerminal ==
    \A r \in Requests :
        StreamRaised(r) =>
            LET fs == res[r].frames IN
            /\ fs # <<>>
            /\ Last(fs).type = "error"
            /\ \A i \in 1..(Len(fs) - 1) : fs[i].type = "delta"
            /\ DeltasCarry(fs, emitted[r])
            /\ res[r].ended
            /\ res[r].sse /\ res[r].headersSent
            /\ res[r].statusCode = 200
            /\ res[r].json = <<>>

\* A stream that raised after its first token.
C8_Witness ==
    \E r \in Requests :
        /\ StreamRaised(r)
        /\ FrameTypes(res[r].frames) = <<"delta", "error">>

\* ------------------------------------------------------------ C9

\* The generation call of the request has returned its whole text.
GenerationCompleted(r) ==
    IF wantsStream(r)
    THEN \E i \in 1..Len(res[r].frames) : res[r].frames[i].type = "message_end"
    ELSE emitted[r] # <<>>

\* The assistant text the provider produced for the request.
ProducedText(r) ==
    IF wantsStream(r) THEN Concat(emitted[r]) ELSE Trim(Concat(emitted[r]))

StoreCalls(r) == calls[r].touch + calls[r].user + calls[r].assistant

\* C9: no store call of a request precedes the successful completion of its
\* generation, so a failed or interrupted generation writes nothing; the turns
\* written carry the resolved user text and the whole assistant text.
C9_PersistAfterGeneration ==
    /\ \A r \in Requests : StoreCalls(r) > 0 => GenerationCompleted(r)
    /\ \A i \in 1..Len(store) :
         LET w == store[i] IN
         /\ GenerationCompleted(w.by)
         /\ w.op = "user" => w.content = userText[w.by]
         /\ w.op = "assistant" => w.content = ProducedText(w.by)

\* A streamed reply of two tokens, written whole.
C9_Witness ==
    \E i \in 1..Len(store) :
        /\ store[i].op = "assistant"
        /\ wantsStream(store[i].by)
        /\ store[i].content = <<"x", "y">>

\* ------------------------------------------------------------ C10

\* C10: after a successful generation, a failing synthesis call leaves the
\* request successful: buffered mode answers 200 with the assistant text and an
\* empty audioBase64; streaming mode sends one tts_error frame and still ends
\* with the done frame.
C10_TtsFailureNonFatal ==
    \A r \in Requests :
        (Finished(r) /\ outcome[r].tts = "failed") =>
            IF wantsStream(r)
            THEN LET types == FrameTypes(res[r].frames) IN
                 /\ Last(types) = "done"
                 /\ Len(SelectSeq(types, LAMBDA t : t = "tts_error")) = 1
                 /\ Len(SelectSeq(types, LAMBDA t : t \in {"error", "tts"})) = 0
                 /\ Last(res[r].frames).text = ProducedText(r)
                 /\ res[r].statusCode = 200
                 /\ res[r].ended
            ELSE /\ res[r].statusCode = 200
                 /\ res[r].ended
                 /\ res[r].json =
                      << [conversationId |-> Trim(req[r].conversationId),
                          transcript |-> userText[r],
                          text |-> ProducedText(r),
                          audioBase64 |-> <<>>] >>

\* A buffered request with a reply and no audio because synthesis failed.
C10_Witness ==
    \E r \in Requests :
        /\ Finished(r) /\ ~wantsStream(r)
        /\ outcome[r].tts = "failed"
        /\ res[r].json # <<>>
        /\ res[r].json[1].text = <<"x">>

\* ------------------------------------------------------------ C11

Min(a, b) == IF a < b THEN a ELSE b

\* The generation provider has been called for r.
Generated(r) == calls[r].gen = 1

\* The turns the caller supplied as an array (directly or as JSON text).
Supplied(r) == req[r].history.turns

SuppliesArray(r) == req[r].history.form \in {"array", "json"}

\* The part of the context between its first and its last message.
Forwarded(r) == SubSeq(messages[r], 2, Len(messages[r]) - 1)

\* C11: once generation has been called for a request that supplied k prior
\* turns as an array, the context handed to the provider is the system
\* instruction first, then the last min(12, k) supplied turns in the order
\* supplied, then the new user turn last.
C11_HistoryWindow ==
    \A r \in Requests :
        Generated(r) /\ SuppliesArray(r) =>
            LET k == Len(Supplied(r))
                n == Min(12, k)
            IN  /\ Len(messages[r]) = n + 2
                /\ messages[r][1].role = "system"
                /\ \A i \in 1..n : Forwarded(r)[i] = Supplied(r)[k - n + i]
                /\ Last(messages[r]) = [role |-> "user", content |-> userText[r]]

\* Twenty turns were supplied, twelve are forwarded: the thirteenth to the
\* twentieth and before them the ninth to the twelfth.
C11_Witness ==
    \E r \in Requests :
        /\ Generated(r)
        /\ SuppliesArray(r)
        /\ Len(Supplied(r)) = 20
        /\ Len(Forwarded(r)) = 12
        /\ Forwarded(r)[1] = Turn(9)
        /\ Forwarded(r)[12] = Turn(20)

\* ------------------------------------------------------------ C12, C13

\* The request carries an audio payload below the size threshold.
SmallAudio(r) == 0 < req[r].fileSize /\ req[r].fileSize < MinAudioBytes

\* The request passes the three checks that precede input resolution.
ReachesInput(r) ==
    PastGate(r) /\ ~MissingConversation(r) /\ ~MissingLanguage(r) /\ ~DeclaresOtherUid(r)

HasAudio(r) == req[r].fileSize >= MinAudioBytes

\* The request carries a text field that is not empty once trimmed.
HasText(r) == Trim(req[r].text) # <<>>

\* The error kind the answer carries, in a JSON document or in its last frame.
AnswerKind(r) ==
    IF res[r].json # <<>>
    THEN IF "error" \in DOMAIN res[r].json[1] THEN res[r].json[1].error ELSE "none"
    ELSE IF res[r].frames # <<>> /\ "error" \in DOMAIN Last(res[r].frames)
    THEN Last(res[r].frames).error
    ELSE "none"

\* Input resolution gave the request an input: it was not answered no_input.
InputAccepted(r) == ReachesInput(r) /\ AnswerKind(r) # "no_input"

\* The transcription provider was or is about to be called for the request.
UsesAudio(r) == pc[r] = "stt" \/ calls[r].stt = 1

\* C13 as written: a request that reaches input resolution is given an input
\* exactly when it carries one of a qualifying audio payload and a non-empty
\* text field and not the other; with both it is not given one.
C13_AsWritten ==
    \A r \in Requests :
        ReachesInput(r) => (InputAccepted(r) <=> (HasAudio(r) # HasText(r)))

\* C13 amended: a request that reaches input resolution is given an input
\* exactly when it carries a qualifying audio payload or a non-empty text
\* field; a qualifying audio payload is transcribed whether or not a text
\* comes with it, and the text is used only without such a payload.
C13_AudioBeforeText ==
    \A r \in Requests :
        ReachesInput(r) =>
            /\ InputAccepted(r) <=> (HasAudio(r) \/ HasText(r))
            /\ UsesAudio(r) <=> HasAudio(r)
            /\ (HasAudio(r) /\ pc[r] # "stt" /\ outcome[r].resolved # <<>>) =>
                  \E t \in providers.stt : outcome[r].resolved = Trim(t)

\* A request with a qualifying audio payload and the text " q" was transcribed
\* and went on to generation with the transcript, not with the text.
C13_Witness ==
    \E r \in Requests :
        /\ HasAudio(r)
        /\ req[r].text = <<" ", "q">>
        /\ calls[r].stt = 1
        /\ calls[r].gen = 1
        /\ outcome[r].resolved = <<"h">>
        /\ InputAccepted(r)

\* ------------------------------------------------------------ C14

\* The request still holds the text input resolution gave it and is on its way
\* to generation or beyond it.
KeepsResolvedText(r) ==
    /\ userText[r] = outcome[r].resolved
    /\ pc[r] \in {"catch", "done"} => calls[r].gen = 1

\* An empty cleanup reply leaves the resolved text in place.
CleanupEmptyKeeps ==
    \A r \in Requests : outcome[r].clean = "empty" => KeepsResolvedText(r)

\* A failed cleanup call leaves the resolved text in place.
CleanupFailureKeeps ==
    \A r \in Requests : outcome[r].clean = "failed" => KeepsResolvedText(r)

\* C14: with cleanup enabled, a request whose cleanup call returned empty text
\* or failed keeps its resolved user text and continues to generation.
C14_CleanupPreserves == CleanupEmptyKeeps /\ CleanupFailureKeeps

\* ------------------------------------------------------------ C15

\* The request asks for streaming: its stream query parameter is 1 or its
\* Accept header names the event-stream content type.
StreamRequested(r) ==
    Trim(req[r].stream) = <<"1">> \/ Includes(req[r].accept, "text/event-stream")

\* What the request has been answered so far is a stream of frames.
AnswersAsStream(r) == res[r].sse /\ res[r].json = <<>>

\* What the request has been answered so far is one JSON document.
AnswersAsJson(r) == ~res[r].sse /\ res[r].frames = <<>>

\* C15: the mode of a request is fixed by its stream query parameter and its
\* Accept header alone, and whatever the request is answered, success or
\* error, is a stream of frames when it asked for streaming and one JSON
\* document otherwise.
C15_ModeFixed ==
    \A r \in Requests :
        res[r].headersSent =>
            IF StreamRequested(r) THEN AnswersAsStream(r) ELSE AnswersAsJson(r)

\* ------------------------------------------------------------ C16

\* The request presents a bearer credential.
PresentsCredential(r) ==
    Len(req[r].authorization) = 2 /\ Lower(req[r].authorization[1]) = "bearer"

\* The identity the request is to carry after the middleware: the decoded
\* identity of a credential the backend verifies, no identity in every other
\* case (no credential, no backend, a credential the backend refuses).
IdentityOf(r) ==
    IF PresentsCredential(r) /\ adminApp /\ req[r].authorization[2] = "good"
    THEN [verified |-> TRUE, uid |-> <<"u">>]
    ELSE [verified |-> FALSE, uid |-> <<>>]

\* The middleware's step on r: it hands r to the route handler with the
\* identity set and nothing answered.
HandsOver(r) ==
    (pc[r] = "verify" /\ pc'[r] # "verify") =>
        /\ pc'[r] = "validate"
        /\ firebaseUser'[r] = IdentityOf(r)
        /\ res'[r] = NewResponse

\* Past the middleware r never returns to it and keeps its identity.
HandedOverOnce(r) ==
    pc[r] \notin {"absent", "verify"} =>
        /\ pc'[r] \notin {"absent", "verify"}
        /\ firebaseUser'[r] = firebaseUser[r]

\* C16: whatever the credential of a request (none, verified, refused, no
\* backend), the middleware sets the request's identity to the decoded identity
\* or to none and hands the request to the route handler, once, without
\* answering it.
C16_VerifyNeverAborts ==
    [][\A r \in Requests : HandsOver(r) /\ HandedOverOnce(r)]_vars

\* A request whose credential the backend refused is in the route handler with
\* no identity; it was answered by the handler, not by the middleware.
C16_Witness ==
    \E r \in Requests :
        /\ PresentsCredential(r)
        /\ adminApp
        /\ req[r].authorization[2] = "bad"
        /\ firebaseUser[r] = NoUser
        /\ Finished(r)
        /\ calls[r].gen = 1
        /\ res[r].statusCode = 200

\* ------------------------------------------------------------ C17

\* A provider call other than synthesis and persistence failed for the request
\* and the request has been answered.
ProviderFailed(r) == Finished(r) /\ err[r] # NoError

\* The message of a failure: the provider's own message when it has one.
FailureMessage(e) == IF e.api # <<>> THEN e.api ELSE e.message

\* The kind and the status a failure maps to by its message.
KindOf(e) ==
    LET msg == FailureMessage(e) IN
    IF Includes(msg, "shorter than") \/ Includes(msg, "too short")
    THEN [kind |-> "audio_too_short", status |-> 400]
    ELSE IF Includes(msg, "invalid") /\ Includes(msg, "language")
    THEN [kind |-> "invalid_language", status |-> 400]
    ELSE [kind |-> "processing_failed", status |-> 500]

\* The failure struck after the streaming channel had committed status 200.
StatusCommitted(r) == wantsStream(r) /\ calls[r].gen = 1

\* C17: a request one of whose provider calls failed is answered with the
\* error kind its failure message maps to (audio_too_short, invalid_language,
\* otherwise processing_failed), in streaming as in buffered mode, and with the
\* status of that kind unless status 200 was committed before.
C17_ErrorMapping ==
    \A r \in Requests :
        ProviderFailed(r) =>
            /\ AnswerKind(r) = KindOf(err[r]).kind
            /\ ~StatusCommitted(r) => res[r].statusCode = KindOf(err[r]).status

\* The mapping as the outer catch applies it: to every failure struck before
\* the streaming channel was opened.
OuterCatchMaps ==
    \A r \in Requests :
        (ProviderFailed(r) /\ ~StatusCommitted(r)) =>
            /\ AnswerKind(r) = KindOf(err[r]).kind
            /\ res[r].statusCode = KindOf(err[r]).status

\* ------------------------------------------------------------ C18

\* A buffered request whose generation succeeded and which has answered.
BufferedSuccess(r) == Finished(r) /\ ~wantsStream(r) /\ calls[r].tts = 1

\* The reply the generation provider gave the buffered request.
Reply(r) == emitted[r][1]

\* The request was answered once, with one JSON document of status 200 holding
\* the trimmed conversation id, the user text, the given assistant text and the
\* synthesized audio (empty when synthesis failed), after one generation call.
BufferedAnswer(r, text) ==
    /\ calls[r].gen = 1
    /\ res[r].statusCode = 200
    /\ res[r].ended
    /\ res[r].frames = <<>>
    /\ res[r].json = << [conversationId |-> Trim(req[r].conversationId),
                         transcript |-> userText[r],
                         text |-> text,
                         audioBase64 |-> base64Audio[r]] >>
    /\ base64Audio[r] \in providers.audios \cup {<<>>}
    /\ outcome[r].tts = "failed" => base64Audio[r] = <<>>

\* C18 as written: a successful buffered request is answered by one JSON
\* document {conversationId, transcript, text, audioBase64} of status 200
\* after exactly one generation call, and its text is the generation reply.
C18_AsWritten ==
    \A r \in Requests : BufferedSuccess(r) => BufferedAnswer(r, Reply(r))

\* C18 amended: as C18, the text being the generation reply trimmed of
\* surrounding whitespace.
C18_BufferedAnswer ==
    \A r \in Requests : BufferedSuccess(r) => BufferedAnswer(r, Trim(Reply(r)))

\* The text 'What is 2+2?' answered 'Four!': both are returned as they are.
C18_Witness ==
    \E r \in Requests :
        /\ BufferedSuccess(r)
        /\ req[r].text = Question
        /\ req[r].fileSize = 0
        /\ Reply(r) = Answer
        /\ res[r].json[1].transcript = Question
        /\ res[r].json[1].text = Answer

\* ------------------------------------------------------------ C19

WriteOrder == <<"touch", "user", "assistant">>

\* The writes of r the store accepted, in the order it accepted them.
OpsOf(r) ==
    LET mine == SelectSeq(store, LAMBDA w : w.by = r)
    IN  [i \in 1..Len(mine) |-> mine[i].op]

IsPrefix(s, t) == Len(s) <= Len(t) /\ s = SubSeq(t, 1, Len(s))

\* The store calls r has made, in the order of the tail.
CallsMade(r) == <<calls[r].touch, calls[r].user, calls[r].assistant>>

\* C19: in every store state reached by concurrent requests on one
\* conversation, the accepted writes of each request are a prefix of touch,
\* user turn, assistant turn, so an assistant turn is in the store only after
\* the user turn of the same request; a write is attempted only once the
\* previous one was accepted, and a failed write is the last one the request
\* attempts.
C19_WriteOrder ==
    /\ \A r \in Requests :
         /\ IsPrefix(OpsOf(r), WriteOrder)
         /\ \A k \in 2..3 : CallsMade(r)[k] = 1 => Len(OpsOf(r)) >= k - 1
         /\ \A k \in 1..3 : CallsMade(r)[k] <= 1
         /\ outcome[r].store = "failed" =>
               /\ Len(OpsOf(r)) < 3
               /\ CallsMade(r)[Len(OpsOf(r)) + 1] = 1
               /\ \A k \in 1..3 : k > Len(OpsOf(r)) + 1 => CallsMade(r)[k] = 0
    /\ \A i \in 1..Len(store) :
         store[i].op = "assistant" =>
            \E j \in 1..(i - 1) : store[j].by = store[i].by /\ store[j].op = "user"

\* Two requests on one conversation: the user turn of b went in between the
\* user turn and the assistant turn of a, and b's assistant write failed,
\* leaving b's user turn without its assistant turn.
C19_Witness ==
    \E a, b \in Requests :
        /\ a # b
        /\ \E i, j, k \in 1..Len(store) :
              /\ i < j /\ j < k
              /\ store[i] = write(a, "user", userText[a])
              /\ store[j].by = b /\ store[j].op = "user"
              /\ store[k].by = a /\ store[k].op = "assistant"
              /\ store[j].chat = store[i].chat /\ store[j].uid = store[i].uid
        /\ outcome[a].store = "ok"
        /\ outcome[b].store = "failed"
        /\ OpsOf(b) = <<"touch", "user">>
        /\ Finished(b)

\* ------------------------------------------------------------ C20

\* The provider calls of a request, in the order of the claim.
Stages == <<"stt", "clean", "gen", "tts", "touch", "user", "assistant">>

\* The generation call of r is in progress: its stream is open.
Generating(r) == pc[r] = "streaming"

\* The place of a call in the order of the claim.
StageOf(provider) ==
    CASE provider = "stt" -> 1
      [] provider = "clean" -> 2
      [] provider = "gen" -> 3
      [] provider = "tts" -> 4
      [] provider = "touch" -> 5
      [] provider = "user" -> 6
      [] provider = "assistant" -> 7

\* The calls of r started in the order of the stages, no stage twice, and
\* while the generation stream is open the generation call is the last call
\* started.
CallsInOrder(r) ==
    LET started == calls[r].order IN
    /\ \A i \in 1..(Len(started) - 1) :
          StageOf(started[i]) < StageOf(started[i + 1])
    /\ \A k \in 1..7 :
          calls[r][Stages[k]] =
             IF \E i \in 1..Len(started) : started[i] = Stages[k] THEN 1 ELSE 0
    /\ Generating(r) => (started # <<>> /\ Last(started) = "gen")

\* A call is made once at most, synthesis only after the generation has
\* completed, persistence only after synthesis has returned.
CallsDepend(r) ==
    /\ \A k \in 1..7 : calls[r][Stages[k]] <= 1
    /\ calls[r].tts = 1 => (calls[r].gen = 1 /\ GenerationCompleted(r))
    /\ calls[r].touch = 1 => (calls[r].tts = 1 /\ outcome[r].tts # "none")

\* The streaming channel of a request whose generation completed is closed
\* only when synthesis has returned or failed and, when the request persists,
\* the store tail has completed or failed.
ChannelOutlastsTail(r) ==
    (res[r].ended /\ wantsStream(r) /\ GenerationCompleted(r)) =>
        /\ Finished(r)
        /\ outcome[r].tts \in {"ok", "failed"}
        /\ persists(r) => outcome[r].store \in {"ok", "failed"}
        /\ Last(res[r].frames).type = "done"

\* C20: the provider calls of a request start one at a time in the order
\* transcription, cleanup, generation, synthesis, persistence, none while the
\* generation stream is open and none of an earlier stage after one of a later
\* stage; in streaming mode the channel is closed only after the synthesis and
\* persistence tail has succeeded or failed.
C20_SequentialCalls ==
    \A r \in Requests : CallsInOrder(r) /\ CallsDepend(r) /\ ChannelOutlastsTail(r)

\* A streaming request that went through every stage: transcription, cleanup,
\* generation, synthesis and the three writes, and then closed its channel.
C20_Witness ==
    \E r \in Requests :
        /\ wantsStream(r)
        /\ Finished(r)
        /\ calls[r].order = Stages
        /\ outcome[r].store = "ok"
        /\ res[r].ended
        /\ Last(res[r].frames).type = "done"

\* ------------------------------------------------------------ C21

\* How many times r has started the call.
TimesStarted(r, provider) ==
    Cardinality({i \in 1..Len(calls[r].order) : calls[r].order[i] = provider})

\* A call of r failed: a provider call ended in a catch, synthesis failed or a
\* store write failed.
SomeCallFailed(r) ==
    err[r] # NoError \/ outcome[r].tts = "failed" \/ outcome[r].store = "failed"

\* C21: in every execution of a request each of transcription, cleanup,
\* generation, synthesis and the three store writes is started once at most,
\* after a failed call as after a successful one.
C21_NothingRetried ==
    \A r \in Requests :
        \A k \in 1..7 :
            /\ TimesStarted(r, Stages[k]) <= 1
            /\ calls[r][Stages[k]] <= 1

\* A request whose synthesis failed and whose user-turn write failed has
\* answered: each was tried once and the assistant turn was never written.
C21_Witness ==
    \E r \in Requests :
        /\ Finished(r)
        /\ outcome[r].tts = "failed"
        /\ outcome[r].store = "failed"
        /\ SomeCallFailed(r)
        /\ calls[r].tts = 1
        /\ calls[r].touch = 1
        /\ calls[r].user = 1
        /\ calls[r].assistant = 0

\* ------------------------------------------------------------ C22

\* The user text r's own input gives: the trimmed text field, or what the
\* transcription provider answered r.
OwnUserText(r) ==
    IF req[r].fileSize >= MinAudioBytes THEN outcome[r].resolved ELSE Trim(req[r].text)

\* The assistant text of r's own generation: the tokens r's stream yielded, or
\* the trimmed reply r's buffered call returned.
OwnAssistantText(r) ==
    IF wantsStream(r) THEN Concat(emitted[r])
    ELSE IF emitted[r] = <<>> THEN <<>> ELSE Trim(emitted[r][1])

\* The delta frames of r carry the tokens of r's own stream and nothing else.
OwnDeltas(r) ==
    LET deltas == SelectSeq(res[r].frames, IsDelta)
        sent == SelectSeq(emitted[r], IsText)
    IN  IF wantsStream(r)
        THEN /\ Len(deltas) = Len(sent)
             /\ \A i \in 1..Len(sent) : deltas[i].delta = sent[i]
        ELSE deltas = <<>>

\* The closing payload of r, done frame or JSON document, carries r's own
\* user text and assistant text.
OwnPayload(r) ==
    /\ \A i \in 1..Len(res[r].frames) :
          res[r].frames[i].type = "done" =>
             /\ res[r].frames[i].transcript = OwnUserText(r)
             /\ res[r].frames[i].text = OwnAssistantText(r)
    /\ \A i \in 1..Len(res[r].json) :
          "text" \in DOMAIN res[r].json[i] =>
             /\ res[r].json[i].transcript = OwnUserText(r)
             /\ res[r].json[i].text = OwnAssistantText(r)

\* The turns r persisted carry r's own user text and assistant text.
OwnTurns(r) ==
    \A i \in 1..Len(store) :
        store[i].by = r =>
            /\ store[i].op = "user" => store[i].content = OwnUserText(r)
            /\ store[i].op = "assistant" => store[i].content = OwnAssistantText(r)

\* C22: whatever the interleaving of two requests in flight, the delta frames,
\* the done frame or JSON document and the persisted turns of a request carry
\* the tokens, the user text and the assistant text of that request alone.
C22_NoInterference ==
    \A r \in Requests :
        /\ userText[r] # <<>> => userText[r] = OwnUserText(r)
        /\ OwnDeltas(r)
        /\ OwnPayload(r)
        /\ OwnTurns(r)

\* Two streaming requests on one conversation, one typed and one spoken, whose
\* streams yielded different tokens and whose writes interleaved: each got its
\* own token and transcript back and persisted its own turns.
C22_Witness ==
    \E a, b \in Requests :
        /\ a # b
        /\ wantsStream(a) /\ wantsStream(b)
        /\ Finished(a) /\ Finished(b)
        /\ emitted[a] = << <<"x">> >> /\ emitted[b] = << <<"y">> >>
        /\ Last(res[a].frames) = [type |-> "done", transcript |-> <<"q">>, text |-> <<"x">>]
        /\ Last(res[b].frames) = [type |-> "done", transcript |-> <<"h">>, text |-> <<"y">>]
        /\ \E i, j, k \in 1..Len(store) :
              /\ i < j /\ j < k
              /\ store[i] = write(a, "user", <<"q">>)
              /\ store[j] = write(b, "user", <<"h">>)
              /\ store[k] = write(a, "assistant", <<"x">>)
        /\ outcome[b].store = "ok"

\* ------------------------------------------------------------ C23

Terminal(f) == f.type \in {"done", "error"}

\* The response of r was completed by one JSON document.
OneJson(r) == res[r].ended /\ res[r].frames = <<>> /\ Len(res[r].json) = 1

\* The response of r was completed by one terminal frame, its last frame.
OneTerminalFrame(r) ==
    /\ res[r].ended
    /\ res[r].json = <<>>
    /\ Len(SelectSeq(res[r].frames, Terminal)) = 1
    /\ Terminal(Last(res[r].frames))

\* A response is completed exactly when its request is finished, and by one
\* terminal outcome of either form.
CompletedOnce ==
    \A r \in Requests :
        /\ res[r].ended <=> Finished(r)
        /\ Finished(r) => (OneJson(r) \/ OneTerminalFrame(r))

\* The terminal outcome has the form of the request's mode.
CompletedInMode ==
    \A r \in Requests :
        Finished(r) => IF wantsStream(r) THEN OneTerminalFrame(r) ELSE OneJson(r)

\* Nothing is written to a completed response.
NothingAfterTerminal == [][\A r \in Requests : res[r].ended => res'[r] = res[r]]_vars

\* Every request is eventually finished.
EventuallyAnswered == \A r \in Requests : <>Finished(r)

\* C23: every request gets exactly one terminal outcome, one JSON document in
\* buffered mode and one terminal frame (done or error) followed by closure in
\* streaming mode; nothing is written after it; and under fairness of the
\* provider calls every request eventually gets it.
C23_OneTerminalOutcome ==
    /\ [](CompletedOnce /\ CompletedInMode)
    /\ NothingAfterTerminal
    /\ EventuallyAnswered

\* ------------------------------------------------------------ C24

\* The transcription provider answered r, and what it answered is empty once
\* trimmed.
EmptyTranscript(r) ==
    /\ req[r].fileSize >= MinAudioBytes
    /\ calls[r].stt = 1
    /\ err[r] = NoError \/ calls[r].clean = 1 \/ calls[r].gen = 1
    /\ outcome[r].resolved = <<>>

\* The user turns r persisted.
UserTurnsOf(r) == SelectSeq(store, LAMBDA w : w.by = r /\ w.op = "user")

\* C24: a request with a qualifying audio payload whose transcript is empty
\* or whitespace is not answered no_input and does not take its text field:
\* its user text stays empty, cleanup is skipped, generation is called with an
\* empty user turn, and the user turn it persists is empty.
C24_EmptyTranscriptGoesOn ==
    \A r \in Requests :
        EmptyTranscript(r) =>
            /\ AnswerKind(r) # "no_input"
            /\ userText[r] = <<>>
            /\ calls[r].clean = 0
            /\ pc[r] \in {"cleanup", "generate"} \/ calls[r].gen = 1
            /\ calls[r].gen = 1 => Last(messages[r]) = [role |-> "user", content |-> <<>>]
            /\ \A i \in 1..Len(UserTurnsOf(r)) : UserTurnsOf(r)[i].content = <<>>

\* A spoken request that also carries the text " q": its transcript came back
\* empty, generation was called with an empty user turn, the request was
\* answered 200 and an empty user turn is in the store.
C24_Witness ==
    \E r \in Requests :
        /\ EmptyTranscript(r)
        /\ req[r].text = <<" ", "q">>
        /\ Finished(r)
        /\ res[r].statusCode = 200
        /\ calls[r].gen = 1
        /\ messages[r] # <<>>
        /\ Last(messages[r]).content = <<>>
        /\ Len(UserTurnsOf(r)) = 1
        /\ UserTurnsOf(r)[1].content = <<>>

\* ------------------------------------------------------------ C25

\* The lines the route has written for the chunks of r's stream.
TokenLines(r) == [i \in 1..Len(emitted[r]) |-> [data |-> emitted[r][i]]]

\* The response of a completed stream: status 200, one line per chunk, the end
\* marker, closed.
SseAnswer(r) ==
    [statusCode |-> 200, headersSent |-> TRUE, sse |-> TRUE,
     frames |-> TokenLines(r) \o <<EndMarker>>, json |-> <<>>, ended |-> TRUE]

\* The response of a stream that failed: status 200, the lines written before
\* the failure, still open.
SseAbandoned(r) ==
    [statusCode |-> 200, headersSent |-> TRUE, sse |-> TRUE,
     frames |-> TokenLines(r), json |-> <<>>, ended |-> FALSE]

\* A deferred task of r was scheduled or a tail call of r was made.
TailBegun(r) == tasks[r] # NoTasks \/ calls[r].tts > 0 \/ StoreCalls(r) > 0

\* The generation of r failed after the stream headers were committed.
FailedOnOpenChannel(r) ==
    pc[r] \in {"catch", "done"} /\ calls[r].gen = 1 /\ err[r] # NoError

\* The two tasks are scheduled together, persistence only with a backend and a
\* declared uid, synthesis starts first and persistence goes on whatever
\* synthesis does.
TasksSeparate(r) ==
    /\ tasks[r].store # "none" => (tasks[r].tts # "none" /\ persists(r))
    /\ StoreCalls(r) > 0 => calls[r].tts = 1
    /\ (tasks[r].tts # "none" /\ persists(r)) => tasks[r].store # "none"

\* C25: in the streaming-only route the end marker is written and the channel
\* closed before any synthesis or persistence step; the two deferred tasks
\* leave the completed response as it was, whatever they do; and a failure
\* after the headers were committed writes no error line, schedules no task
\* and leaves the channel open.
C25_DeferredTail ==
    \A r \in Requests :
        /\ TailBegun(r) => (res[r] = SseAnswer(r) /\ Finished(r))
        /\ (res[r].ended /\ res[r].sse) => res[r] = SseAnswer(r)
        /\ TasksSeparate(r)
        /\ FailedOnOpenChannel(r) => (res[r] = SseAbandoned(r) /\ ~TailBegun(r))

\* The channel was closed after two chunks; the synthesis call is still in
\* flight while the persistence task has written the touch and the user turn.
C25_Witness ==
    \E r \in Requests :
        /\ Finished(r)
        /\ res[r] = SseAnswer(r)
        /\ Len(emitted[r]) = 2
        /\ tasks[r].tts = "calling"
        /\ tasks[r].store = "assistant"
        /\ OpsOf(r) = <<"touch", "user">>

====
